---- MODULE Spec2Model ----
(***************************************************************************)
(* Conditional Distribution Similarity statistic (CDS.py).                 *)
(*                                                                         *)
(* Numbers.  The inputs are integer samples.  Every real the code forms is *)
(* of the shape  n / (q * sqrt(rad))  with integers n, q > 0, rad >= 0, so *)
(* the model keeps reals exactly as such triples (a whole array shares q   *)
(* and rad).  rad = 0 is a division by a zero standard deviation: IEEE     *)
(* arithmetic gives +inf for n > 0, -inf for n < 0 and NaN for n = 0.      *)
(* A discretized array is a record [val, nan]: val its integer entries and *)
(* nan the set of positions that hold NaN.  Floating-point rounding error  *)
(* is not modelled: comparisons are those of exact arithmetic.             *)
(*                                                                         *)
(* Objects.  numpy arrays are objects; a heap maps object names to arrays  *)
(* so that "returns the same array" and "writes in place" are modelled.    *)
(***************************************************************************)
EXTENDS Integers, Sequences, FiniteSets, TLC

\* ---- bounds of the model ----
\* Spec: sample pairs of 1..MaxLen rows, a binary and b in 0..MaxVal, one
\* granularity; minc is in 1..MaxMinc or the number of rows
MaxLen == 5
MaxVal == 3
MaxMinc == 2
Ffactor == 1
Maxdev == 1
\* SpecDisc: a sequence of 1..MaxDiscLen values in 0..MaxDiscVal and its reverse,
\* granularities 1..MaxFfactor
MaxDiscLen == 6
MaxDiscVal == 4
MaxFfactor == 2

NUMERICAL == "Numerical"

VARIABLES ffactor, maxdev, minc, a, b, ret, log

vars == <<ffactor, maxdev, minc, a, b, ret, log>>

None == [none |-> TRUE]

\* ---- arithmetic helpers ----
Abs(n) == IF n < 0 THEN -n ELSE n

RECURSIVE SumSeq(_)
SumSeq(s) == IF s = <<>> THEN 0 ELSE Head(s) + SumSeq(Tail(s))

RECURSIVE SumOver(_, _)
SumOver(S, f) ==
    IF S = {} THEN 0 ELSE LET i == CHOOSE j \in S : TRUE IN f[i] + SumOver(S \ {i}, f)

RECURSIVE Gcd(_, _)
Gcd(m, n) == IF n = 0 THEN m ELSE Gcd(n, m % n)

\* the sequence s itself, as a tuple: TLC then computes every entry once
Eager(s) == s \o <<>>

Zeros(n) == [i \in 1..n |-> 0]

\* sorted(list(set(...))) of a set of integers
sorted(S) ==
    Eager([i \in 1..Cardinality(S) |-> CHOOSE v \in S : Cardinality({w \in S : w < v}) = i - 1])

\* an integer array as a heap object
Arr(s) == [val |-> s, nan |-> {}]

Finite(x) == {x.val[i] : i \in (DOMAIN x.val) \ x.nan}

\* the sign of A - B * sqrt(rad), for integers A, B and rad >= 1
CmpSqrt(A, B, rad) ==
    IF A >= 0 /\ B <= 0 THEN (IF A = 0 /\ B = 0 THEN 0 ELSE 1)
    ELSE IF A <= 0 /\ B >= 0 THEN -1
    ELSE LET l == A * A
             r == B * B * rad
             s == IF l > r THEN 1 ELSE IF l < r THEN -1 ELSE 0
         IN IF A > 0 THEN s ELSE -s

\* ---- CDS.py, lines 17-59 ----

\* len(set(x)): NaN objects never compare equal, so each counts on its own
count_unique(x) == Cardinality(Finite(x)) + Cardinality(x.nan)

numerical(tp) == tp = NUMERICAL

\* variant: the threshold test with >= for >
discretized_values_ge(x, tx, ff, md) ==
    IF numerical(tx) /\ count_unique(x) >= (2 * ff * md + 1)
    THEN LET vmax == ff * md
             vmin == -(ff * md)
         IN [i \in 1..(vmax - vmin + 1) |-> vmin + i - 1]
    ELSE sorted(Finite(x))

discretized_values(x, tx, ff, md) ==
    IF numerical(tx) /\ count_unique(x) > (2 * ff * md + 1)
    THEN LET vmax == ff * md
             vmin == -(ff * md)
         IN [i \in 1..(vmax - vmin + 1) |-> vmin + i - 1]
    ELSE sorted(Finite(x))

len_discretized_values(x, tx, ff, md) == Len(discretized_values(x, tx, ff, md))

\* (x - np.mean(x)) / np.std(x) for an integer sequence s:
\* (s[i] - S/N) / (sqrt(N*SS - S*S)/N) = (N*s[i] - S) / sqrt(N*SS - S*S)
Standardize(s) ==
    LET N == Len(s)
        S == SumSeq(s)
        SS == SumSeq([i \in 1..N |-> s[i] * s[i]])
    IN [num |-> Eager([i \in 1..N |-> N * s[i] - S]), q |-> 1, rad |-> N * SS - S * S]

\* the positions kept by x[abs(x) < maxdev]
Inliers(z, md) ==
    {i \in DOMAIN z.num :
        /\ z.rad > 0
        /\ z.num[i] * z.num[i] < md * md * z.q * z.q * z.rad}

\* (x - np.mean(xf)) / np.std(xf) where xf = x[F]; the common factor
\* 1/(q*sqrt(rad)) of x cancels.  An empty xf has mean NaN: every entry is NaN,
\* which the triple (0, 1, 0) denotes.
Restandardize(z, F) ==
    LET M == Cardinality(F)
        S == SumOver(F, z.num)
        SS == SumOver(F, [i \in DOMAIN z.num |-> z.num[i] * z.num[i]])
    IN [num |-> Eager([i \in DOMAIN z.num |-> M * z.num[i] - S]), q |-> 1, rad |-> M * SS - S * S]

\* floor(|t|) for t = n / (q * sqrt(rad)): the largest r with (r*q)^2 * rad <= n^2
RECURSIVE FloorAbsFrom(_, _, _, _)
FloorAbsFrom(r, n, q, rad) ==
    IF (r + 1) * (r + 1) * q * q * rad > n * n THEN r ELSE FloorAbsFrom(r + 1, n, q, rad)

\* np.round(t), t = n / (q * sqrt(rad)) finite: nearest integer, halves to even
RoundHalfEven(n, q, rad) ==
    LET f == FloorAbsFrom(0, n, q, rad)
        sg == IF n < 0 THEN -1 ELSE 1
    IN CHOOSE k \in {sg * f, sg * (f + 1)} :
        LET lo == CmpSqrt(2 * n, (2 * k - 1) * q, rad)
            hi == CmpSqrt(2 * n, (2 * k + 1) * q, rad)
        IN /\ lo = 1 \/ (lo = 0 /\ k % 2 = 0)
           /\ hi = -1 \/ (hi = 0 /\ k % 2 = 0)

\* np.round(x * ffactor): a new array; an entry is finite, +inf, -inf or NaN
Rounded(x, ff) ==
    Eager([i \in DOMAIN x.num |->
        LET n == ff * x.num[i]
        IN IF x.rad = 0
           THEN [kind |-> IF n > 0 THEN "inf" ELSE IF n < 0 THEN "-inf" ELSE "nan", k |-> 0]
           ELSE [kind |-> "fin", k |-> RoundHalfEven(n, x.q, x.rad)]])

\* variant: lines 52-53 left out
Unclipped(r, vmin, vmax) ==
    [val |-> Eager([i \in DOMAIN r |->
                IF r[i].kind = "inf" THEN vmax ELSE IF r[i].kind = "-inf" THEN vmin ELSE r[i].k]),
     nan |-> {i \in DOMAIN r : r[i].kind = "nan"}]

\* x[x > vmax] = vmax ; x[x < vmin] = vmin  (NaN compares false and stays)
Clipped(r, vmin, vmax) ==
    [val |-> Eager([i \in DOMAIN r |->
                IF r[i].kind = "inf" \/ (r[i].kind = "fin" /\ r[i].k > vmax) THEN vmax
                ELSE IF r[i].kind = "-inf" \/ (r[i].kind = "fin" /\ r[i].k < vmin) THEN vmin
                ELSE r[i].k]),
     nan |-> {i \in DOMAIN r : r[i].kind = "nan"}]

\* variant: the rounding done in place, so that x still names the argument
ClipTargetInput(x, fresh) == x

\* the object the in-place clipping of lines 52-53 writes to: x was rebound at
\* line 49 to the new array np.round returned
ClipTarget(x, fresh) == fresh

\* variant: the test of line 44 left out, every sequence standardized
discretized_sequence_always(h, x, fresh, tx, ff, md, norm) ==
    LET x1 == IF norm
              THEN LET z == Standardize(h[x].val)
                   IN Restandardize(z, Inliers(z, md))
              ELSE h[x]
        r == Rounded(x1, ff)
    IN [h |-> [h EXCEPT ![fresh] = Clipped(r, -(ff * md), ff * md)], ref |-> fresh]

\* h: the heap, x: the name of the argument array, fresh: the name the array
\* created at line 49 gets.  Returns the heap and the name of the returned array.
discretized_sequence(h, x, fresh, tx, ff, md, norm) ==
    IF ~norm \/ (numerical(tx) /\ count_unique(h[x]) > len_discretized_values(h[x], tx, ff, md))
    THEN LET x1 == IF norm
                   THEN LET z == Standardize(h[x].val)
                        IN Restandardize(z, Inliers(z, md))
                   ELSE h[x]
             r == Rounded(x1, ff)
             vmax == ff * md
             vmin == -(ff * md)
             t == ClipTarget(x, fresh)
         IN [h |-> [h EXCEPT ![t] = Clipped(r, vmin, vmax)], ref |-> t]
    ELSE [h |-> h, ref |-> x]

Both(d1, d2) == [h |-> d2.h, xd |-> d1.ref, yd |-> d2.ref]

Then(d1, y, ff, md) == Both(d1, discretized_sequence(d1.h, y, "yd", NUMERICAL, ff, md, TRUE))

discretized_sequences(h, x, y, ff, md) ==
    Then(discretized_sequence(h, x, "xd", NUMERICAL, ff, md, TRUE), y, ff, md)

\* ---- CDS.py, lines 62-134: class CDS ----

Objs == {"a", "b", "xd", "yd", "yx", "yxd"}

\* the caller's two arrays, and no other array yet
Heap(s, t) == [o \in Objs |-> IF o = "a" THEN Arr(s) ELSE IF o = "b" THEN Arr(t) ELSE Arr(<<>>)]

\* Counter(x).keys(): one key per distinct number, in ascending order here (the
\* order of a dict is unspecified and the score does not depend on it), and one
\* key per NaN object, named by its position
CounterKeys(x) ==
    LET fin == sorted(Finite(x))
        nans == sorted(x.nan)
    IN Eager([i \in 1..(Len(fin) + Len(nans)) |->
                IF i <= Len(fin) THEN [nan |-> FALSE, v |-> fin[i]]
                ELSE [nan |-> TRUE, v |-> nans[i - Len(fin)]]])

\* the positions of x equal to key k (x == k; NaN equals nothing)
Rows(x, k) == IF k.nan THEN {} ELSE {i \in (DOMAIN x.val) \ x.nan : x.val[i] = k.v}

\* Counter(x)[k]: a NaN key is found again by identity and counts itself only
CounterAt(x, k) == IF k.nan THEN 1 ELSE Cardinality(Rows(x, k))

\* [c[i] for i in keys] for the Counter c of the integer sequence s
Histogram(s, keys) ==
    Eager([j \in DOMAIN keys |-> Cardinality({i \in DOMAIN s : s[i] = keys[j]})])

\* y_te[xd == a], in row order
Select(y, R) == LET idx == sorted(R) IN Eager([j \in DOMAIN idx |-> y[idx[j]]])

\* variant: the last index of the maximum
IndexOfLastMax(xc) ==
    (CHOOSE i \in DOMAIN xc :
        /\ \A j \in DOMAIN xc : xc[j] <= xc[i]
        /\ \A j \in (i + 1)..Len(xc) : xc[j] < xc[i]) - 1

\* the first index (from 0) of the maximum: xcorr.index(max(xcorr))
IndexOfMax(xc) ==
    (CHOOSE i \in DOMAIN xc :
        /\ \A j \in DOMAIN xc : xc[j] <= xc[i]
        /\ \A j \in 1..(i - 1) : xc[j] < xc[i]) - 1

\* what the loop keeps of one qualifying bin: the histogram before and after
\* alignment, the correlation scores and the selected offset
Computed(h, raw, xcorr, imax, pyxa) ==
    [h |-> h, raw |-> raw, xcorr |-> xcorr, imax |-> imax, pyxa |-> pyxa]

Unaligned(h, pyxa) == Computed(h, pyxa, <<>>, 0, pyxa)

\* lines 110-114: the continuous branch for the rows yx of one cause bin
\* (yx - np.mean(yx)) / np.std(y_te) = N*(n*yx[j] - S) / (n*sqrt(rad)), N = len(y_te), n = len(yx)
Centered(y, yx) ==
    LET S == SumSeq(yx)
    IN [num |-> Eager([j \in DOMAIN yx |-> Len(y) * (Len(yx) * yx[j] - S)]),
        q |-> Len(yx), rad |-> Standardize(y).rad]

ContinuousCounts(d, y, ff, md) ==
    Unaligned(d.h, Histogram(d.h[d.ref].val, discretized_values(y, NUMERICAL, ff, md)))

ContinuousHistogram(h, y_te, yx, ff, md) ==
    ContinuousCounts(
        discretized_sequence([h EXCEPT !["yx"] = Centered(h[y_te].val, yx)],
                             "yx", "yxd", NUMERICAL, ff, md, FALSE),
        h[y_te], ff, md)

\* variant: one zero more on the left
LeftPadLong(ny, imax) == 2 * ny - 1 - imax

\* the number of zeros put before the histogram at line 123
LeftPad(ny, imax) == 2 * ny - 2 - imax

\* line 123
Shifted(h, pyxa, xcorr, imax) ==
    Computed(h, pyxa, xcorr, imax,
             Zeros(LeftPad(Len(pyxa), imax)) \o pyxa \o Zeros(imax))

\* line 121 on pyxax, the histogram between ny - 1 zeros on each side
Correlation(Py, pyxax) ==
    Eager([i \in 1..(2 * Len(Py) - 1) |-> SumSeq([j \in 1..Len(Py) |-> Py[j] * pyxax[i - 1 + j]])])

\* line 122
Selected(h, pyxa, xcorr) == Shifted(h, pyxa, xcorr, IndexOfMax(xcorr))

\* lines 120-123
Aligned(h, pyxa, Py) ==
    Selected(h, pyxa, Correlation(Py, Zeros(Len(Py) - 1) \o pyxa \o Zeros(Len(Py) - 1)))

\* lines 118-123: the low-cardinality branch; Py holds the counts cy[i], of
\* which py is the multiple by 1/N, so xcorr is kept as N times the code's
AlignedHistogram(h, yx, yrange, Py) == Aligned(h, Histogram(yx, yrange), Py)

\* variant: >= for >
QualifiesGe(cnt, mc) == cnt >= mc

\* cx[a] > self.minc
Qualifies(cnt, mc) == cnt > mc

\* the product of the totals of the first k histograms
RECURSIVE ProdTot(_, _)
ProdTot(pyx, k) == IF k = 0 THEN 1 ELSE pyx[k].tot * ProdTot(pyx, k - 1)

Reduced(num, den, g) == [err |-> FALSE, num |-> num \div g, den |-> den \div g]

Fraction(num, den) == Reduced(num, den, Gcd(num, den))

\* the sum of the squares of K * u[k][j] - sum over k of u[k][j]
SquaredDeviations(u, K, L) ==
    LET U == Eager([j \in 1..L |-> SumSeq([k \in 1..K |-> u[k][j]])])
    IN SumSeq([k \in 1..K |->
          SumSeq([j \in 1..L |-> (K * u[k][j] - U[j]) * (K * u[k][j] - U[j])])])

\* the histograms on the common denominator D
Scaled(pyx, D) ==
    Eager([k \in DOMAIN pyx |->
             Eager([j \in DOMAIN pyx[k].hist |-> pyx[k].hist[j] * (D \div pyx[k].tot)])])

Variance(pyx, K, L, D) == Fraction(SquaredDeviations(Scaled(pyx, D), K, L), K * K * D * D * K * L)

\* np.std(pyx - pyx.mean(axis=0)) for the K normalized histograms pyx[k].hist / pyx[k].tot,
\* as the reduced fraction num/den of its square (the variance)
Dispersion(pyx) == Variance(pyx, Len(pyx), Len(pyx[1].hist), ProdTot(pyx, Len(pyx)))

Zero == [err |-> FALSE, num |-> 0, den |-> 1]

AssertionError == [err |-> TRUE, num |-> 0, den |-> 1]

\* lines 124-127: the assertion, the normalization (kept as histogram and total)
\* and the append, for the bin k with cnt rows yx and the computed histogram hg
Appended(c, st, k, cnt, yx, hg) ==
    [h |-> hg.h,
     raised |-> SumSeq(hg.pyxa) # cnt,
     pyx |-> IF SumSeq(hg.pyxa) = cnt THEN Append(st.pyx, [hist |-> hg.pyxa, tot |-> cnt])
             ELSE st.pyx,
     bins |-> Append(st.bins,
                     [key |-> k, cnt |-> cnt, yx |-> yx, cont |-> c.cont, raw |-> hg.raw,
                      xcorr |-> hg.xcorr, imax |-> hg.imax, pyxa |-> hg.pyxa,
                      ny |-> Len(c.yrange)])]

\* lines 103-127 for one qualifying bin
Bin(c, st, k, cnt, yx) ==
    Appended(c, st, k, cnt, yx,
             IF c.cont THEN ContinuousHistogram(st.h, c.y_te, yx, c.ff, c.md)
             ELSE AlignedHistogram(st.h, yx, c.yrange, c.Py))

\* lines 101-127: the loop over the cause bins, from the i-th key on.  c holds
\* what the loop reads (keys, xd, y_te, yrange, Py, cont and the fields), st what
\* it has built (the heap, pyx, and per qualifying bin what was computed).
RECURSIVE BinLoop(_, _, _)
BinLoop(c, i, st) ==
    IF i > Len(c.keys) \/ st.raised THEN st
    ELSE IF ~Qualifies(CounterAt(c.xd, c.keys[i]), c.mc) THEN BinLoop(c, i + 1, st)
    ELSE BinLoop(c, i + 1,
                 Bin(c, st, c.keys[i], CounterAt(c.xd, c.keys[i]),
                     Select(st.h[c.y_te].val, Rows(c.xd, c.keys[i]))))

\* lines 129-134
Returned(ds, x_te, y_te, fin) ==
    [h |-> fin.h,
     bins |-> fin.bins,
     xd |-> [out |-> ds.h[ds.xd], same |-> ds.xd = x_te],
     yd |-> [out |-> ds.h[ds.yd], same |-> ds.yd = y_te],
     val |-> IF fin.raised THEN AssertionError
             ELSE IF Len(fin.pyx) = 0 THEN Zero
             ELSE Dispersion(fin.pyx)]

\* lines 94-99 and the test of line 108, which does not depend on the bin
Locals(ds, y_te, yrange, ff, md, mc) ==
    [keys |-> CounterKeys(ds.h[ds.xd]), xd |-> ds.h[ds.xd], y_te |-> y_te, yrange |-> yrange,
     Py |-> Histogram(ds.h[ds.yd].val, yrange),
     cont |-> count_unique(ds.h[y_te]) > len_discretized_values(ds.h[y_te], NUMERICAL, ff, md),
     ff |-> ff, md |-> md, mc |-> mc]

\* cy has NaN keys only when y_te takes the continuous branch, which reads
\* neither yrange nor py: yrange is kept as the sorted numbers among the keys
Scored(ds, x_te, y_te, ff, md, mc) ==
    Returned(ds, x_te, y_te,
             BinLoop(Locals(ds, y_te, sorted(Finite(ds.h[ds.yd])), ff, md, mc), 1,
                     [h |-> ds.h, raised |-> FALSE, pyx |-> <<>>, bins |-> <<>>]))

\* cds_score(x_te, y_te) on heap h with fields ff, md, mc.  Returns the heap, the
\* returned value, the two discretized arrays and the loop's record of the bins.
cds_score(h, x_te, y_te, ff, md, mc) ==
    Scored(discretized_sequences(h, x_te, y_te, ff, md), x_te, y_te, ff, md, mc)

\* s1 - s2 of two scores sqrt(s1), sqrt(s2), kept as the pair
Minus(s1, s2) == [err |-> s1.err \/ s2.err, plus |-> [num |-> s1.num, den |-> s1.den],
                  minus |-> [num |-> s2.num, den |-> s2.den]]

\* variant: the operands of the subtraction exchanged
Difference_swapped(c1, c2) == [h |-> c2.h, first |-> c1, second |-> c2, val |-> Minus(c2.val, c1.val)]

\* line 84, given what the two calls returned
Difference(c1, c2) == [h |-> c2.h, first |-> c1, second |-> c2, val |-> Minus(c1.val, c2.val)]

\* the right operand, evaluated unless the left one raised
Second(c1, x, y, ff, md, mc) ==
    Difference(c1, IF c1.val.err THEN c1 ELSE cds_score(c1.h, x, y, ff, md, mc))

\* predict_proba(a, b): the left operand cds_score(b, a) is evaluated first
predict_proba(h, x, y, ff, md, mc) ==
    Second(cds_score(h, y, x, ff, md, mc), x, y, ff, md, mc)

\* ---- the caller: a CDS instance, two sample arrays and the calls made on them ----

Dirs == {"ab", "ba"}

Arrays == {"a", "b"}

Cause(d) == IF d = "ab" THEN "a" ELSE "b"

Effect(d) == IF d = "ab" THEN "b" ELSE "a"

Opp(d) == IF d = "ab" THEN "ba" ELSE "ab"

\* a variable of the Binary kind
BinaryValues == {0, 1}

\* rows in lexicographic order: the computation is invariant under a joint
\* permutation of the rows, so one order stands for all
RowsSorted(s) ==
    \A i \in 1..(Len(s) - 1) :
        s[i][1] < s[i + 1][1] \/ (s[i][1] = s[i + 1][1] /\ s[i][2] <= s[i + 1][2])

\* ret: the value each function returned last, per argument; log: what the last
\* cds_score of each direction computed for every qualifying cause bin
NoCall ==
    [pp |-> [d \in Dirs |-> None], cds |-> [d \in Dirs |-> None],
     seq |-> [o \in Arrays |-> None], vals |-> [o \in Arrays |-> None]]

\* CDS(ffactor, maxdev, minc), built with explicit arguments, and a sample pair
\* of 1..MaxLen rows
Init ==
    /\ ffactor = Ffactor
    /\ maxdev = Maxdev
    /\ \E n \in 1..MaxLen :
         \E s \in [1..n -> BinaryValues \X (0..MaxVal)] :
            /\ RowsSorted(s)
            /\ a = [i \in 1..n |-> s[i][1]]
            /\ b = [i \in 1..n |-> s[i][2]]
            /\ minc \in (1..MaxMinc) \cup {n}
    /\ ret = NoCall
    /\ log = [d \in Dirs |-> None]

\* what a cds_score call c with cause x and effect y leaves in ret.seq and ret.vals
SeqAfter(c, x, y, old) == [o \in Arrays |-> IF o = x THEN c.xd ELSE IF o = y THEN c.yd ELSE old[o]]

ValsAfter(h) == [o \in Arrays |-> [out |-> discretized_values(h[o], NUMERICAL, ffactor, maxdev)]]

\* self.cds_score(x_te, y_te) called on the instance
CdsScore(d) ==
    \E r \in {cds_score(Heap(a, b), Cause(d), Effect(d), ffactor, maxdev, minc)} :
       /\ a' = r.h["a"].val
       /\ b' = r.h["b"].val
       /\ ret' = [ret EXCEPT !.cds[d] = r.val,
                             !.seq = SeqAfter(r, Cause(d), Effect(d), ret.seq),
                             !.vals = ValsAfter(Heap(a, b))]
       /\ log' = [log EXCEPT ![d] = [bins |-> r.bins]]
       /\ UNCHANGED <<ffactor, maxdev, minc>>

\* self.predict_proba(a, b) called on the instance
PredictProba(d) ==
    \E r \in {predict_proba(Heap(a, b), Cause(d), Effect(d), ffactor, maxdev, minc)} :
       /\ a' = r.h["a"].val
       /\ b' = r.h["b"].val
       /\ ret' = [ret EXCEPT !.pp[d] = r.val,
                             !.cds = [e \in Dirs |->
                                        IF e = Opp(d) THEN r.first.val
                                        ELSE IF r.first.val.err THEN ret.cds[e]
                                        ELSE r.second.val],
                             !.seq = IF r.first.val.err
                                     THEN SeqAfter(r.first, Effect(d), Cause(d), ret.seq)
                                     ELSE SeqAfter(r.second, Cause(d), Effect(d), ret.seq),
                             !.vals = ValsAfter(r.first.h)]
       /\ log' = [e \in Dirs |->
                    IF e = Opp(d) THEN [bins |-> r.first.bins]
                    ELSE IF r.first.val.err THEN log[e] ELSE [bins |-> r.second.bins]]
       /\ UNCHANGED <<ffactor, maxdev, minc>>

\* discretized_sequence(x, "Numerical", ffactor, maxdev) called on one of the arrays
DiscretizedSequence(o) ==
    \E r \in {discretized_sequence(Heap(a, b), o, "xd", NUMERICAL, ffactor, maxdev, TRUE)} :
       /\ a' = r.h["a"].val
       /\ b' = r.h["b"].val
       /\ ret' = [ret EXCEPT !.seq[o] = [out |-> r.h[r.ref], same |-> r.ref = o],
                             !.vals[o] = [out |-> discretized_values(Heap(a, b)[o], NUMERICAL, ffactor, maxdev)]]
       /\ UNCHANGED <<ffactor, maxdev, minc, log>>

\* discretized_values(x, "Numerical", ffactor, maxdev) called on one of the arrays
DiscretizedValues(o) ==
    /\ ret' = [ret EXCEPT !.vals[o] = [out |-> discretized_values(Heap(a, b)[o], NUMERICAL, ffactor, maxdev)]]
    /\ UNCHANGED <<ffactor, maxdev, minc, a, b, log>>

\* the estimator called on the sample pair
Next ==
    \/ \E d \in Dirs : CdsScore(d)
    \/ \E d \in Dirs : PredictProba(d)

Spec == Init /\ [][Next]_vars

\* a sequence in ascending order: discretization acts on each entry given the
\* sequence's moments, so one order stands for all; b is the same in descending order
Ascending(s) == \A i \in 1..(Len(s) - 1) : s[i] <= s[i + 1]

InitDisc ==
    /\ ffactor \in 1..MaxFfactor
    /\ maxdev = Maxdev
    /\ minc = 1
    /\ \E n \in 1..MaxDiscLen :
         \E s \in [1..n -> 0..MaxDiscVal] :
            /\ Ascending(s)
            /\ a = s
            /\ b = [i \in 1..n |-> s[n + 1 - i]]
    /\ ret = NoCall
    /\ log = [d \in Dirs |-> None]

\* every function of the module called on the two sequences
NextDisc ==
    \/ \E d \in Dirs : CdsScore(d)
    \/ \E d \in Dirs : PredictProba(d)
    \/ \E o \in Arrays : DiscretizedSequence(o)
    \/ \E o \in Arrays : DiscretizedValues(o)

SpecDisc == InitDisc /\ [][NextDisc]_vars

\* ---- properties ----

Called(v) == v # None

\* -(sqrt(plus) - sqrt(minus))
Negated(p) == [err |-> p.err, plus |-> p.minus, minus |-> p.plus]

\* the entries the last cds_score of direction d kept, one per qualifying bin
Bins(d) == IF Called(log[d]) THEN log[d].bins ELSE <<>>

BinIds(d) == DOMAIN Bins(d)

\* the number of rows of the discretized cause of direction d that equal v
Support(d, v) ==
    Cardinality({i \in DOMAIN ret.seq[Cause(d)].out.val :
                    i \notin ret.seq[Cause(d)].out.nan /\ ret.seq[Cause(d)].out.val[i] = v})

\* C1: predict_proba(a, b) is cds_score(b, a) - cds_score(a, b), and so
\* predict_proba(a, b) is exactly the negation of predict_proba(b, a)
C1_Antisymmetry ==
    \A d \in Dirs :
        Called(ret.pp[d]) =>
            /\ ~ret.pp[d].err
            /\ ret.pp[d] = Minus(ret.cds[Opp(d)], ret.cds[d])
            /\ Called(ret.pp[Opp(d)]) => ret.pp[d] = Negated(ret.pp[Opp(d)])

\* both orders were scored and the score is not zero
C1_Witness ==
    /\ \A d \in Dirs : Called(ret.pp[d]) /\ ~ret.pp[d].err
    /\ ret.pp["ab"].plus # ret.pp["ab"].minus

\* C2: at the assertion of line 124 the histogram of every qualifying cause bin,
\* in the continuous and in the low-cardinality branch, sums to the bin's count
\* cx[a], so that no call raises
C2_Conservation ==
    \A d \in Dirs :
        /\ Called(ret.cds[d]) => ~ret.cds[d].err
        /\ \A i \in BinIds(d) :
              /\ Bins(d)[i].cnt = Support(d, Bins(d)[i].key.v)
              /\ SumSeq(Bins(d)[i].pyxa) = Bins(d)[i].cnt

\* one direction took the continuous branch, the other aligned a histogram of
\* two or more effect bins
C2_Witness ==
    /\ \E i \in BinIds("ab") : Bins("ab")[i].cont
    /\ \E i \in BinIds("ba") : ~Bins("ba")[i].cont /\ Bins("ba")[i].ny >= 2
    /\ \A d \in Dirs : ~ret.cds[d].err

\* the caller's array named o
In(o) == IF o = "a" THEN a ELSE b

Values(s) == {s[i] : i \in DOMAIN s}

\* the effect values of direction d at the rows whose discretized cause is v
EffectAt(d, v, w) ==
    Cardinality({i \in DOMAIN In(Effect(d)) :
                    /\ i \notin ret.seq[Cause(d)].out.nan
                    /\ ret.seq[Cause(d)].out.val[i] = v
                    /\ In(Effect(d))[i] = w})

Occurrences(s, w) == Cardinality({j \in DOMAIN s : s[j] = w})

\* the entries of the low-cardinality branch
LowCard(d) == {i \in BinIds(d) : ~Bins(d)[i].cont}

\* C3 as claimed: in the low-cardinality branch the aligned histogram has
\* length ny
C3_LengthNy ==
    \A d \in Dirs : \A i \in LowCard(d) : Len(Bins(d)[i].pyxa) = Bins(d)[i].ny

\* C3, amended: in the low-cardinality branch the selected offset imax is in
\* 0..2*ny-2 and the aligned histogram is the ny raw counts after 2*ny-2-imax
\* zeros and before imax zeros: its length is 3*ny-2, for every ny >= 1
C3_LengthThreeNy ==
    \A d \in Dirs : \A i \in LowCard(d) :
        /\ Bins(d)[i].ny >= 1
        /\ Len(Bins(d)[i].raw) = Bins(d)[i].ny
        /\ Bins(d)[i].imax \in 0..(2 * Bins(d)[i].ny - 2)
        /\ Len(Bins(d)[i].pyxa) = 3 * Bins(d)[i].ny - 2
        /\ \A j \in 1..Len(Bins(d)[i].pyxa) :
              Bins(d)[i].pyxa[j] =
                 IF j - (2 * Bins(d)[i].ny - 2 - Bins(d)[i].imax) \in 1..Bins(d)[i].ny
                 THEN Bins(d)[i].raw[j - (2 * Bins(d)[i].ny - 2 - Bins(d)[i].imax)]
                 ELSE 0

\* a histogram of three effect bins was aligned at an offset other than 0
C3_Witness ==
    \E d \in Dirs : \E i \in LowCard(d) : Bins(d)[i].ny = 3 /\ Bins(d)[i].imax > 0

\* C6: with minc >= N no cause bin qualifies, no conditional distribution is
\* built, and cds_score returns exactly 0 without raising; so does predict_proba
C6_DegenerateThreshold ==
    minc >= Len(a) =>
        \A d \in Dirs :
            /\ Called(ret.cds[d]) => ret.cds[d] = Zero /\ Bins(d) = <<>>
            /\ Called(ret.pp[d]) => ret.pp[d] = Minus(Zero, Zero)

\* minc = N, a cause bin holds all N rows, the other sequence has more than
\* 2*ffactor*maxdev+1 distinct values; all four calls were made
C6_Witness ==
    /\ minc = Len(a)
    /\ Values(a) = {0}
    /\ Cardinality(Values(b)) > 2 * ffactor * maxdev + 1
    /\ \A d \in Dirs : Called(ret.cds[d]) /\ Called(ret.pp[d])

\* a sequence of zero standard deviation
Constant(s) == Cardinality(Values(s)) = 1

\* a returned score that is a finite number
IsFinite(v) == ~v.err /\ v.den > 0

\* C7 as claimed: a constant input is discretized to non-finite values, and
\* cds_score and predict_proba return a non-finite result
C7_NonFinite ==
    \A o \in Arrays :
        Constant(In(o)) =>
            /\ Called(ret.seq[o]) => ret.seq[o].out.nan # {}
            /\ \A d \in Dirs : Called(ret.cds[d]) => ~IsFinite(ret.cds[d])
            /\ \A d \in Dirs : Called(ret.pp[d]) => ret.pp[d].err

\* C7, amended: a constant input has one distinct value, so discretized_sequence
\* returns the very array it was given, with no division and no non-finite
\* entry, and cds_score in both directions and predict_proba return exactly 0
C7_ConstantIsIdentity ==
    \A o \in Arrays :
        Constant(In(o)) =>
            /\ Called(ret.seq[o]) =>
                  /\ ret.seq[o].same
                  /\ ret.seq[o].out = [val |-> In(o), nan |-> {}]
            /\ \A d \in Dirs : Called(ret.cds[d]) => ret.cds[d] = Zero
            /\ \A d \in Dirs : Called(ret.pp[d]) => ret.pp[d] = Minus(Zero, Zero)

\* a is constant, its one bin qualifies, b is not constant, and both
\* directions were scored
C7_Witness ==
    /\ Constant(a)
    /\ ~Constant(b)
    /\ Len(a) > minc
    /\ \A d \in Dirs : Called(ret.cds[d]) /\ Called(ret.pp[d]) /\ Bins(d) # <<>>

\* the counts cy[i] of the discretized effect of direction d, i over the ny
\* values of yrange: N times the marginal py
Marginal(d, ny) ==
    Eager([j \in 1..ny |->
        Cardinality({i \in DOMAIN ret.seq[Effect(d)].out.val :
            Cardinality({w \in Values(ret.seq[Effect(d)].out.val) :
                            w < ret.seq[Effect(d)].out.val[i]}) = j - 1})])

\* the raw histogram e.raw between ny - 1 zeros on each side, at index k from 1
Embedded(e, k) == IF k - (e.ny - 1) \in 1..e.ny THEN e.raw[k - (e.ny - 1)] ELSE 0

\* N times the correlation score of offset i: the products of the marginal
\* with the window of length ny that starts at i
Score(cy, e, i) == SumSeq([j \in 1..e.ny |-> cy[j] * Embedded(e, i + j)])

Scores(cy, e) == Eager([k \in 1..(2 * e.ny - 1) |-> Score(cy, e, k - 1)])

\* offset i is the smallest one whose score is the maximum of sc
FirstMaximum(sc, i) ==
    /\ i \in 0..(Len(sc) - 1)
    /\ \A k \in 0..(Len(sc) - 1) : sc[k + 1] <= sc[i + 1] /\ (k < i => sc[k + 1] < sc[i + 1])

\* C9: in the low-cardinality branch the histogram is embedded between ny - 1
\* zeros on each side, the score of each offset i in 0..2*ny-2 is the sum of the
\* products of the marginal with the window of length ny starting at i, and the
\* selected offset is the smallest one whose score is the maximum
C9_Correlation ==
    \A d \in Dirs : \A n \in LowCard(d) :
        /\ Len(Bins(d)[n].xcorr) = 2 * Bins(d)[n].ny - 1
        /\ Bins(d)[n].xcorr = Scores(Marginal(d, Bins(d)[n].ny), Bins(d)[n])
        /\ FirstMaximum(Bins(d)[n].xcorr, Bins(d)[n].imax)

\* two offsets tie for the maximum score of a histogram of two or more bins
C9_Witness ==
    \E d \in Dirs : \E n \in LowCard(d) :
        /\ Bins(d)[n].ny >= 2
        /\ \E i \in (Bins(d)[n].imax + 1)..(2 * Bins(d)[n].ny - 2) :
              Bins(d)[n].xcorr[i + 1] = Bins(d)[n].xcorr[Bins(d)[n].imax + 1]

\* C10: cds_score builds exactly one conditional distribution for each distinct
\* cause bin with more than minc rows, from exactly the effect values at the rows
\* where xd equals the bin, and none for a bin with minc rows or fewer
C10_QualifyingBins ==
    \A d \in Dirs :
        Called(log[d]) =>
            /\ \A v \in Values(ret.seq[Cause(d)].out.val) :
                  Cardinality({i \in BinIds(d) : ~Bins(d)[i].key.nan /\ Bins(d)[i].key.v = v})
                     = IF Support(d, v) > minc THEN 1 ELSE 0
            /\ \A i \in BinIds(d) :
                  /\ ~Bins(d)[i].key.nan
                  /\ Support(d, Bins(d)[i].key.v) > minc
                  /\ Len(Bins(d)[i].yx) = Support(d, Bins(d)[i].key.v)
                  /\ \A w \in Values(In(Effect(d))) :
                        Occurrences(Bins(d)[i].yx, w) = EffectAt(d, Bins(d)[i].key.v, w)

\* of the cause bins of one call, one has exactly minc rows and built nothing
\* and another has more and built a distribution
C10_Witness ==
    \E d \in Dirs :
        /\ Called(log[d])
        /\ Len(Bins(d)) = 1
        /\ \E v \in Values(ret.seq[Cause(d)].out.val) : Support(d, v) = minc
        /\ Len(Bins(d)[1].yx) < Len(a)

\* more distinct values than the 2*ffactor*maxdev+1 bins of the range
Continuous(s) == Cardinality(Values(s)) > 2 * ffactor * maxdev + 1

InRange(v) == -(ffactor * maxdev) <= v /\ v <= ffactor * maxdev

\* the rows within maxdev standard deviations of the mean: (s[i] - mean)^2 <
\* maxdev^2 * variance, both sides multiplied by N^2
Near(s) ==
    {i \in DOMAIN s :
        (Len(s) * s[i] - SumSeq(s)) * (Len(s) * s[i] - SumSeq(s))
            < maxdev * maxdev
                * (Len(s) * SumSeq([j \in DOMAIN s |-> s[j] * s[j]]) - SumSeq(s) * SumSeq(s))}

\* C4 as claimed: every element discretized_sequence returns for a sequence of
\* more than 2*ffactor*maxdev+1 distinct values is an integer of the range
\* -ffactor*maxdev .. ffactor*maxdev
C4_Range ==
    \A o \in Arrays :
        (Continuous(In(o)) /\ Called(ret.seq[o])) =>
            /\ ret.seq[o].out.nan = {}
            /\ \A i \in DOMAIN In(o) : InRange(ret.seq[o].out.val[i])

\* C4, amended: every such element is an integer of the range or NaN; it is NaN
\* exactly when the rows within maxdev standard deviations of the mean all hold
\* the same value and the element is one of them
C4_RangeOrNaN ==
    \A o \in Arrays :
        (Continuous(In(o)) /\ Called(ret.seq[o])) =>
            /\ Len(ret.seq[o].out.val) = Len(In(o))
            /\ ret.seq[o].out.nan =
                  IF \A i, j \in Near(In(o)) : In(o)[i] = In(o)[j] THEN Near(In(o)) ELSE {}
            /\ \A i \in DOMAIN In(o) :
                  i \notin ret.seq[o].out.nan => InRange(ret.seq[o].out.val[i])

\* a sequence of more than 2*ffactor*maxdev+1 distinct values was discretized
\* to NaN at two rows and to both ends of the range at others
C4_Witness ==
    /\ Continuous(a)
    /\ Called(ret.seq["a"])
    /\ Cardinality(ret.seq["a"].out.nan) = 2
    /\ \E i, j \in (DOMAIN a) \ ret.seq["a"].out.nan :
          /\ ret.seq["a"].out.val[i] = ffactor * maxdev
          /\ ret.seq["a"].out.val[j] = -(ffactor * maxdev)

\* s lists the members of S once each in ascending order
SortedSetOf(s, S) ==
    /\ Len(s) = Cardinality(S)
    /\ Values(s) = S
    /\ \A i \in 1..(Len(s) - 1) : s[i] < s[i + 1]

\* C5: for a sequence of no more than 2*ffactor*maxdev+1 distinct values,
\* discretized_values returns the sorted distinct values, as many as there are,
\* and discretized_sequence returns the sequence itself, unchanged
C5_LowCardinalityIdentity ==
    \A o \in Arrays :
        ~Continuous(In(o)) =>
            /\ Called(ret.vals[o]) => SortedSetOf(ret.vals[o].out, Values(In(o)))
            /\ Called(ret.seq[o]) =>
                  /\ ret.seq[o].same
                  /\ ret.seq[o].out = [val |-> In(o), nan |-> {}]

\* a sequence with repeats of exactly 2*ffactor*maxdev+1 distinct values went
\* through both functions, and so did its reverse
C5_Witness ==
    /\ Cardinality(Values(a)) = 2 * ffactor * maxdev + 1
    /\ Len(a) > 2 * ffactor * maxdev + 1
    /\ Called(ret.vals["a"]) /\ Called(ret.seq["a"])
    /\ Called(ret.vals["b"]) /\ Called(ret.seq["b"])

\* C8: no call changes the caller's sequences or the instance's ffactor, maxdev
\* and minc, and a call repeated on the same inputs returns what it returned
\* before
C8_Pure ==
    [][/\ a' = a /\ b' = b
       /\ ffactor' = ffactor /\ maxdev' = maxdev /\ minc' = minc
       /\ \A d \in Dirs :
             /\ Called(ret.pp[d]) => ret'.pp[d] = ret.pp[d]
             /\ Called(ret.cds[d]) => ret'.cds[d] = ret.cds[d]
             /\ Called(log[d]) => log'[d] = log[d]
       /\ \A o \in Arrays :
             /\ Called(ret.seq[o]) => ret'.seq[o] = ret.seq[o]
             /\ Called(ret.vals[o]) => ret'.vals[o] = ret.vals[o]]_vars

\* every function was called, and discretized_sequence clipped a new array
\* that differs from the sequence it was given
C8_Witness ==
    /\ \A d \in Dirs : Called(ret.pp[d]) /\ Called(ret.cds[d])
    /\ \A o \in Arrays : Called(ret.seq[o]) /\ Called(ret.vals[o])
    /\ ~ret.seq["a"].same
    /\ ret.seq["a"].out.val # a
    /\ \E i \in DOMAIN a : Abs(ret.seq["a"].out.val[i]) = ffactor * maxdev

====
